---- MODULE Spec2Model ----
(***************************************************************************)
(* kubebanana.py: a Streamlit page.  Streamlit executes the whole script   *)
(* top to bottom once when the session opens and once more after every     *)
(* widget interaction.  Module-level names (save_mode, minio_client, ...)  *)
(* are rebound by every execution; st.session_state and the widget values  *)
(* survive from one execution to the next.  One action below is one        *)
(* complete execution of the script.  The model covers sessions in which   *)
(* GEMINI_API_KEY is set (lines 19-22 stop the script otherwise) and the   *)
(* Gemini client and model objects are constructed (lines 60-111).         *)
(***************************************************************************)
EXTENDS Integers, Sequences, FiniteSets, TLC

\* ---------------------------------------------------------------- bounds
MaxRuns == 4        \* script executions in one session
MaxClock == 1       \* wall clock, in seconds since the session opened
MaxParts == 2       \* parts in one upstream response
MaxPromptLen == 1   \* characters in the prompt

\* ------------------------------------------------------ program constants
NumSlots == 4             \* st.columns(4), range(1,5)
SecondsPerDay == 86400    \* strftime("%Y-%m-%d") changes every 86400 s

Slots == 1..NumSlots
None == <<>>

S3Params == {"S3_ENDPOINT", "S3_ACCESS_KEY", "S3_SECRET_KEY", "S3_BUCKET_NAME"}

\* What a file_uploader can hold: nothing, a file Pillow rejects, a picture.
BadFile == <<"file", "garbage">>
GoodFile == <<"file", "picA">>
UploadValues == {None, BadFile, GoodFile}

\* The inline_data an upstream image part can carry.
PartImages == {"imgA", "imgB"}
Garbage == "garbage"

\* Response parts: a text part, an image part, an image part Pillow rejects,
\* a part with neither text nor inline_data.
TextPart == [text |-> "t", inline_data |-> ""]
EmptyPart == [text |-> "", inline_data |-> ""]
ImagePart(d) == [text |-> "", inline_data |-> d]
Parts == {TextPart, EmptyPart} \cup {ImagePart(d) : d \in PartImages \cup {Garbage}}

SeqsUpTo(S, n) == UNION {[1..k -> S] : k \in 0..n}

\* generate_content either raises or returns a sequence of parts.
UpstreamError == [raises |-> TRUE, parts |-> <<>>]
Responses ==
    {UpstreamError} \cup {[raises |-> FALSE, parts |-> s] : s \in SeqsUpTo(Parts, MaxParts)}
NoResponse == [raises |-> FALSE, parts |-> <<>>]
IsImagePart(part) == part.text = "" /\ part.inline_data \in PartImages

Chars == {" ", "a"}
Prompts == SeqsUpTo(Chars, MaxPromptLen)

VARIABLES
    config,                 \* os.environ: which variables are set (non-empty)
    env,                    \* the world outside: the directory, the object store
    now,                    \* datetime.now(), in seconds
    runs,                   \* executions of the script so far
    s3_configured, minio_client, filesystem_configured, save_mode,
    startup_mode,           \* save_mode as bound by the first execution
    uploader,               \* file_uploader widgets img1..img4
    prompt,                 \* text_area widget
    save_with_date_folder,  \* checkbox widget
    uploaded_images, generated_image, generated_image_bytes, current_filename,
    files,                  \* what the backends hold: {<<backend, key, bytes>>}
    overwritten,            \* some write so far targeted a key already written
    run                     \* what the latest execution did and showed

vars == <<config, env, now, runs, s3_configured, minio_client,
          filesystem_configured, save_mode, startup_mode, uploader, prompt,
          save_with_date_folder, uploaded_images, generated_image,
          generated_image_bytes, current_filename, files, overwritten, run>>

\* ------------------------------------------------- backend selection 24-58

\* all([S3_ENDPOINT, S3_ACCESS_KEY, S3_SECRET_KEY, S3_BUCKET_NAME])
AllS3Params(cfg) == \A p \in S3Params : p \in cfg.s3

\* The object store as lines 35-42 find it: the bucket is there; it is not and
\* make_bucket creates it; it is not and make_bucket raises; bucket_exists
\* raises (endpoint unreachable, credentials refused); Minio(...) raises.
S3States == {"bucket", "no_bucket", "no_bucket_denied", "unreachable", "bad_endpoint"}

\* Lines 35-42: TRUE when the try block completes without raising.
MinioInitOk(e) == e.s3 \in {"bucket", "no_bucket"}

\* s3_configured after lines 31-46.
S3ConfiguredKeepsFailedInit(cfg, e) == AllS3Params(cfg)
S3Configured(cfg, e) == AllS3Params(cfg) /\ MinioInitOk(e)

\* minio_client after lines 32-46.
MinioClient(cfg, e) == IF S3Configured(cfg, e) THEN <<"Minio">> ELSE None

\* Line 50.
FilesystemConfigured(cfg, e) == cfg.fs_path /\ e.dir_exists

\* Lines 53-58.
SaveModeS3First(fsc, s3c) ==
    IF s3c THEN "s3" ELSE IF fsc THEN "filesystem" ELSE "memory"
SaveMode(fsc, s3c) ==
    IF fsc THEN "filesystem" ELSE IF s3c THEN "s3" ELSE "memory"

\* ------------------------------------------------------ upload loop 138-155

\* Image.open(BytesIO(img_bytes)).convert("RGB"); raises on BadFile.
Decodable(f) == f # BadFile
OpenUpload(f) == <<"RGB", f[2]>>

\* One pass of the loop body for slot i.
UploadSlot(imgs, up, i) ==
    IF up[i] # None
      THEN [imgs EXCEPT ![i] = OpenUpload(up[i])]
      ELSE [imgs EXCEPT ![i] = None]

\* The loop from slot i on.  Image.open raising is caught nowhere: the
\* execution ends there, with the slots before i already updated.
RECURSIVE UploadLoop(_, _, _)
UploadLoop(imgs, up, i) ==
    IF i > NumSlots THEN [images |-> imgs, raised_at |-> 0]
    ELSE IF up[i] # None /\ ~Decodable(up[i]) THEN [images |-> imgs, raised_at |-> i]
    ELSE UploadLoop(UploadSlot(imgs, up, i), up, i + 1)

\* ------------------------------------------------- generate handler 162-254

\* str.strip() on a sequence of characters.
RECURSIVE LStrip(_)
LStrip(s) == IF s # <<>> /\ Head(s) = " " THEN LStrip(Tail(s)) ELSE s
RECURSIVE RStrip(_)
RStrip(s) ==
    IF s # <<>> /\ s[Len(s)] = " " THEN RStrip(SubSeq(s, 1, Len(s) - 1)) ELSE s
Strip(s) == RStrip(LStrip(s))

\* Lines 163-167: which branch of the handler is taken.
ValidateNoStrip(p, imgs) ==
    IF p = <<>> THEN "warn_prompt"
    ELSE IF imgs[1] = None THEN "warn_image"
    ELSE "call"
Validate(p, imgs) ==
    IF Strip(p) = <<>> THEN "warn_prompt"
    ELSE IF imgs[1] = None THEN "warn_image"
    ELSE "call"

\* Line 195: Image.open(BytesIO(part.inline_data.data)).convert("RGB").
OpenPart(d) == <<"RGB", d>>
\* Lines 199-202: img.save(img_bytes, format="PNG"); getvalue().
PngBytes(img) == <<"PNG", img>>
\* Lines 205-211: gemini_image_<YYYYMMDD_HHMMSS>.png at second resolution,
\* under <YYYY-MM-DD>/ when the checkbox asks for it (-1: no folder).
BaseName(t, dated) == <<IF dated THEN t \div SecondsPerDay ELSE -1, t>>
\* Line 290: os.path.basename(current_filename); None stands for the
\* TypeError it raises on None.
Basename(fn) == IF fn = None THEN None ELSE <<-1, fn[2]>>

HasKey(fs, backend, key) == \E f \in fs : f[1] = backend /\ f[2] = key
\* open(full_path, "wb") + write, or put_object: the key then holds data.
Put(fs, backend, key, data) ==
    {f \in fs : ~(f[1] = backend /\ f[2] = key)} \cup {<<backend, key, data>>}

\* A write attempt on `backend` (lines 217-222 or 227-233); ok: it succeeds.
Write(acc, backend, key, data, ok) ==
    [acc EXCEPT !.writes = Append(@, <<backend, key, ok>>),
                !.files = IF ok THEN Put(@, backend, key, data) ELSE @,
                !.overwritten = @ \/ (ok /\ HasKey(acc.files, backend, key))]

\* Lines 216-242 for one decoded image: dispatch on save_mode.
SaveFallsBackToMemory(acc, mode, client, base, ok) ==
    LET data == acc.generated_image_bytes IN
    IF mode = "filesystem" THEN
        IF ok THEN [Write(acc, "filesystem", base, data, ok)
                        EXCEPT !.notices = @ \cup {"saved_fs"}, !.found_image = TRUE]
        ELSE [Write(acc, "filesystem", base, data, ok)
                        EXCEPT !.notices = @ \cup {"memory_only"}, !.found_image = TRUE]
    ELSE IF mode = "s3" /\ client # None THEN
        IF ok THEN [Write(acc, "s3", base, data, ok)
                        EXCEPT !.notices = @ \cup {"saved_s3"}, !.found_image = TRUE]
        ELSE [Write(acc, "s3", base, data, ok)
                        EXCEPT !.notices = @ \cup {"memory_only"}, !.found_image = TRUE]
    ELSE [acc EXCEPT !.notices = @ \cup {"memory_only"}, !.found_image = TRUE]
Save(acc, mode, client, base, ok) ==
    LET data == acc.generated_image_bytes IN
    IF mode = "filesystem" THEN
        \* makedirs/open/write raising leaves the loop (caught at line 253)
        IF ok THEN [Write(acc, "filesystem", base, data, ok)
                        EXCEPT !.notices = @ \cup {"saved_fs"}, !.found_image = TRUE]
        ELSE [Write(acc, "filesystem", base, data, ok) EXCEPT !.raised = TRUE]
    ELSE IF mode = "s3" /\ client # None THEN
        \* put_object raising is caught at line 235; the loop goes on
        IF ok THEN [Write(acc, "s3", base, data, ok)
                        EXCEPT !.notices = @ \cup {"saved_s3"}, !.found_image = TRUE]
        ELSE [Write(acc, "s3", base, data, ok)
                        EXCEPT !.notices = @ \cup {"s3_failed"}, !.found_image = TRUE]
    ELSE [acc EXCEPT !.notices = @ \cup {"memory_only"}, !.found_image = TRUE]

\* Lines 195-213: decode the part, update session state, derive the filename.
\* t: what datetime.now() returns, in seconds.
StorePartNoFilename(acc, d, t, dated) ==
    LET img == OpenPart(d)
    IN  [acc EXCEPT !.generated_image = img,
                    !.generated_image_bytes = PngBytes(img),
                    !.now = t,
                    !.dispatched = Append(@, d)]
StorePart(acc, d, t, dated) ==
    LET img == OpenPart(d)
    IN  [acc EXCEPT !.generated_image = img,
                    !.generated_image_bytes = PngBytes(img),
                    !.now = t,
                    !.current_filename = BaseName(t, dated),
                    !.dispatched = Append(@, d)]

\* Lines 192-242: the loop body for one part.  (CHOOSE r \in {F(a) : a \in
\* {e}} : TRUE is F(e) with e evaluated once.)
ProcessPart(acc, part, t, ok, mode, client, dated) ==
    IF part.text # "" THEN [acc EXCEPT !.text_output = part.text]
    ELSE IF part.inline_data # "" THEN
        IF part.inline_data = Garbage THEN [acc EXCEPT !.raised = TRUE]
        ELSE CHOOSE r \in {Save(a, mode, client, a.current_filename, ok) :
                             a \in {StorePart(acc, part.inline_data, t, dated)}} : TRUE
    ELSE acc

\* Lines 191-242: the loop from part i on; an exception leaves it.
RECURSIVE PartsLoop(_, _, _, _, _, _, _, _)
PartsLoop(acc, parts, i, times, oks, mode, client, dated) ==
    IF i > Len(parts) THEN acc
    ELSE CHOOSE r \in
            {IF a.raised THEN a
             ELSE PartsLoop(ProcessPart(a, parts[i], times[i], oks[i], mode, client, dated),
                            parts, i + 1, times, oks, mode, client, dated) :
                a \in {acc}} : TRUE

\* Lines 244-254: the closing notice.
ClosingNoticeAlwaysSuccess(acc) == "success"
ClosingNotice(acc) ==
    IF acc.raised THEN "error"
    ELSE IF ~acc.found_image THEN "no_image"
    ELSE "success"

\* Lines 162-254: the handler, entered with the button pressed.
Handler(acc, p, imgs, resp, times, oks, mode, client, dated) ==
    LET v == Validate(p, imgs) IN
    IF v # "call" THEN [acc EXCEPT !.notices = {v}]
    ELSE CHOOSE r \in
            {[a EXCEPT !.notices = @ \cup {ClosingNotice(a)}] :
                a \in {IF resp.raises THEN [acc EXCEPT !.calls = @ + 1, !.raised = TRUE]
                       ELSE PartsLoop([acc EXCEPT !.calls = @ + 1], resp.parts, 1,
                                      times, oks, mode, client, dated)}} : TRUE

\* Lines 257-293: the results section with its download button.
Download(image, bytes, fn) ==
    IF image # None THEN <<bytes, Basename(fn)>> ELSE None

\* --------------------------------------------------- one script execution

Configs == [fs_path : BOOLEAN, s3 : SUBSET S3Params]
\* The environment an execution can find under cfg: without a configured
\* path there is no directory to exist, without all four parameters the
\* object store is never contacted.
Envs(cfg, s3states) ==
    [dir_exists : IF cfg.fs_path THEN BOOLEAN ELSE {FALSE},
     s3 : IF AllS3Params(cfg) THEN s3states ELSE {"unreachable"}]

NoUploads == [i \in Slots |-> None]

Acc0 ==
    [generated_image |-> generated_image,
     generated_image_bytes |-> generated_image_bytes,
     current_filename |-> current_filename,
     now |-> now, files |-> files, overwritten |-> overwritten,
     notices |-> {}, calls |-> 0, dispatched |-> <<>>, writes |-> <<>>,
     found_image |-> FALSE, text_output |-> "", raised |-> FALSE]

\* What the execution did, for the properties below.
RunRecord(clicked, loop, h, resp, mode) ==
    LET reached == loop.raised_at = 0 IN
    [env |-> env,
     clicked |-> clicked,
     raised_at |-> loop.raised_at,
     handler |-> clicked /\ reached,
     mode |-> mode,
     calls |-> h.calls,
     response |-> IF h.calls > 0 THEN resp ELSE NoResponse,
     notices |-> IF reached THEN h.notices ELSE {"exception"},
     dispatched |-> h.dispatched,
     writes |-> h.writes,
     download |-> IF reached
                    THEN Download(h.generated_image, h.generated_image_bytes,
                                  h.current_filename)
                    ELSE None]

\* The script, top to bottom, with the widgets holding
\* up, p, dated and the generate button pressed or not.
Execute(up, p, dated, clicked, resp, times, oks) ==
    /\ runs < MaxRuns
    /\ \E globals \in {[fsc |-> FilesystemConfigured(config, env),
                        s3c |-> S3Configured(config, env),
                        client |-> MinioClient(config, env)]} :
       \E mode \in {SaveMode(globals.fsc, globals.s3c)} :
       \E loop \in {UploadLoop(uploaded_images, up, 1)} :
       \E h \in {IF loop.raised_at = 0 /\ clicked
                   THEN Handler(Acc0, p, loop.images, resp, times, oks, mode,
                                globals.client, dated)
                   ELSE Acc0} :
           /\ runs' = runs + 1
           /\ s3_configured' = globals.s3c
           /\ minio_client' = globals.client
           /\ filesystem_configured' = globals.fsc
           /\ save_mode' = mode
           /\ uploader' = up
           /\ prompt' = p
           /\ save_with_date_folder' = dated
           /\ uploaded_images' = loop.images
           /\ generated_image' = h.generated_image
           /\ generated_image_bytes' = h.generated_image_bytes
           /\ current_filename' = h.current_filename
           /\ now' = h.now
           /\ files' = h.files
           /\ overwritten' = h.overwritten
           /\ run' = RunRecord(clicked, loop, h, resp, mode)
           /\ UNCHANGED <<config, env, startup_mode>>

\* Per part: what the clock shows when its timestamp is taken, and whether
\* its write succeeds.  The clock never runs backwards; only image parts read
\* it (a part that does not is given the reading before it) and only image
\* parts write.
TimesFor(parts, t0) ==
    {t \in [1..Len(parts) -> t0..MaxClock] :
        \A i \in 1..Len(parts) :
            LET before == IF i = 1 THEN t0 ELSE t[i - 1]
            IN  IF IsImagePart(parts[i]) THEN t[i] >= before ELSE t[i] = before}
OksFor(parts, writes) ==
    {o \in [1..Len(parts) -> BOOLEAN] :
        \A i \in 1..Len(parts) : ~(writes /\ IsImagePart(parts[i])) => o[i]}

\* ----------------------------------------------------------------- actions

\* The user puts a file into uploader i, replaces it or removes it.
SetUpload(i, f) ==
    /\ f # uploader[i]
    /\ Execute([uploader EXCEPT ![i] = f], prompt, save_with_date_folder,
               FALSE, NoResponse, <<>>, <<>>)

\* Any interaction that touches neither an uploader nor the generate
\* button: the selectboxes, the slider, a view button.
Rerun ==
    Execute(uploader, prompt, save_with_date_folder, FALSE, NoResponse, <<>>, <<>>)

\* The user presses "Generate AI Image", the text area holding p and the
\* date-folder checkbox dated.  The response and the per-part inputs are
\* drawn only when the handler gets as far as consulting them.
ClickGenerate ==
    /\ runs < MaxRuns
    /\ \E p \in Prompts, dated \in BOOLEAN :
       \E loop \in {UploadLoop(uploaded_images, uploader, 1)} :
       \E calls \in {loop.raised_at = 0 /\ Validate(p, loop.images) = "call"} :
       \E writes \in {SaveMode(FilesystemConfigured(config, env),
                               S3Configured(config, env)) # "memory"} :
       \E resp \in IF calls THEN Responses ELSE {NoResponse} :
       \E times \in TimesFor(resp.parts, now), oks \in OksFor(resp.parts, writes) :
           /\ (~calls => dated = save_with_date_folder)
           /\ Execute(uploader, p, dated, TRUE, resp, times, oks)

\* Between two executions the world changes: the directory is created or
\* removed, the object store comes or goes.
EnvChange(s3states) ==
    /\ runs < MaxRuns
    /\ \E e \in Envs(config, s3states) : e # env /\ env' = e
    /\ UNCHANGED <<config, now, runs, s3_configured, minio_client,
                   filesystem_configured, save_mode, startup_mode, uploader, prompt,
                   save_with_date_folder, uploaded_images, generated_image,
                   generated_image_bytes, current_filename, files, overwritten, run>>

\* The session opens: the first execution, every widget at its default,
\* session state as lines 125-132 create it.
MainConfigs == {cfg \in Configs : cfg.s3 \in {{}, S3Params}}

MainS3States == {"bucket", "unreachable"}

InitWith(cfgs, s3states) ==
    /\ config \in cfgs
    /\ env \in Envs(config, s3states)
    /\ now = 0
    /\ runs = 1
    /\ s3_configured = S3Configured(config, env)
    /\ minio_client = MinioClient(config, env)
    /\ filesystem_configured = FilesystemConfigured(config, env)
    /\ save_mode = SaveMode(filesystem_configured, s3_configured)
    /\ startup_mode = save_mode
    /\ uploader = NoUploads
    /\ prompt = <<>>
    /\ save_with_date_folder = FALSE
    /\ uploaded_images = NoUploads
    /\ generated_image = None
    /\ generated_image_bytes = None
    /\ current_filename = None
    /\ files = {}
    /\ overwritten = FALSE
    /\ run = [env |-> env, clicked |-> FALSE, raised_at |-> 0, handler |-> FALSE,
              mode |-> save_mode, calls |-> 0,
              response |-> NoResponse, notices |-> {}, dispatched |-> <<>>,
              writes |-> <<>>, download |-> None]

Next ==
    \/ \E i \in Slots, f \in UploadValues : SetUpload(i, f)
    \/ Rerun
    \/ ClickGenerate
    \/ EnvChange(MainS3States)

Init == InitWith(MainConfigs, MainS3States)
Spec == Init /\ [][Next]_vars

\* Backend selection alone, over every combination of set and unset
\* variables: executions that touch no widget, in a changing world.
SelectInit == InitWith(Configs, S3States)
SelectNext == Rerun \/ EnvChange(S3States)
SelectSpec == SelectInit /\ [][SelectNext]_vars

\* ------------------------------------------------------------- properties

InitFailed == AllS3Params(config) /\ run.env.s3 \notin {"bucket", "no_bucket"}
DirectoryThere == config.fs_path /\ run.env.dir_exists
NonBlank(p) == \E i \in 1..Len(p) : p[i] # " "
HasImagePart(resp) ==
    \E i \in 1..Len(resp.parts) : resp.parts[i].text = "" /\ resp.parts[i].inline_data # ""
AllDecodable(resp) ==
    \A i \in 1..Len(resp.parts) : resp.parts[i].inline_data # Garbage
\* The inline_data of the image parts, in response order.
RECURSIVE ImageData(_)
ImageData(parts) ==
    IF parts = <<>> THEN <<>>
    ELSE IF IsImagePart(Head(parts)) THEN <<Head(parts).inline_data>> \o ImageData(Tail(parts))
    ELSE ImageData(Tail(parts))
FailedWrite == \E i \in 1..Len(run.writes) : ~run.writes[i][3]
Last(s) == s[Len(s)]

\* C1: the target every execution selects is a function of the configuration
\* and of the environment it finds, with the priority Filesystem > ObjectStore
\* > Ephemeral: 'filesystem' whenever FILESYSTEM_SAVE_PATH names an existing
\* directory, else 's3' when all four parameters are set and the client and
\* bucket initialisation succeeded, else 'memory'.
C1_SelectionPriority ==
    save_mode = IF config.fs_path /\ run.env.dir_exists THEN "filesystem"
                ELSE IF S3Params \subseteq config.s3 /\ run.env.s3 \in {"bucket", "no_bucket"}
                  THEN "s3"
                ELSE "memory"
\* Both backends validly configured, evaluated more than once: filesystem.
C1_Witness ==
    /\ runs >= 2
    /\ DirectoryThere /\ AllS3Params(config) /\ ~InitFailed
    /\ save_mode = "filesystem"

\* C2 as stated: whenever the object-store initialisation fails, the selected
\* target is 'memory'.
C2_InitFailureGivesMemory == InitFailed => save_mode = "memory"
\* C2 as amended: whenever the object-store initialisation fails, the client
\* is dropped and the target is never 's3': it is 'filesystem' when
\* FILESYSTEM_SAVE_PATH names an existing directory and 'memory' otherwise.
C2_InitFailureNeverS3 ==
    InitFailed =>
        /\ minio_client = None
        /\ ~s3_configured
        /\ save_mode = IF config.fs_path /\ run.env.dir_exists THEN "filesystem" ELSE "memory"
\* A failed initialisation with a valid directory: filesystem is selected.
C2_Witness == InitFailed /\ DirectoryThere /\ save_mode = "filesystem" /\ runs >= 2

\* C3: an execution calls generate_content only from the generate handler, and
\* there exactly once when the prompt is non-blank and img1 is uploaded (also
\* when the call raises), and not at all otherwise, in which case a warning is
\* the only notice.
C3_OneCallIffValid ==
    /\ ~run.handler => run.calls = 0
    /\ run.handler =>
        /\ run.calls = IF NonBlank(prompt) /\ uploaded_images[1] # None THEN 1 ELSE 0
        /\ run.calls = 0 => run.notices \in {{"warn_prompt"}, {"warn_image"}}
        /\ run.calls = 1 => run.notices \cap {"warn_prompt", "warn_image"} = {}
\* A blank prompt with img1 uploaded is rejected; and a valid request whose
\* call raises was attempted once.
C3_WitnessRejected ==
    /\ run.handler /\ prompt = <<" ">> /\ uploaded_images[1] # None
    /\ run.calls = 0 /\ run.notices = {"warn_prompt"}
C3_Witness ==
    /\ run.handler /\ run.calls = 1 /\ run.response.raises
    /\ "error" \in run.notices

\* C4: a generate action that reached the upstream call never ends in a
\* silently empty success: it stored at least one image as the session's
\* generated image, or showed the 'no image' error, or showed an error notice;
\* the 'no image' error is shown exactly when the call returned a response
\* without image parts, a raising call always shows the error notice, and the
\* success notice is never shown for a response without an image part.
C4_NoSilentEmptySuccess ==
    run.calls = 1 =>
        /\ \/ Len(run.dispatched) >= 1 /\ generated_image = OpenPart(Last(run.dispatched))
           \/ "no_image" \in run.notices
           \/ "error" \in run.notices
        /\ "no_image" \in run.notices <=>
               (~run.response.raises /\ ~HasImagePart(run.response))
        /\ run.response.raises => run.notices = {"error"}
        /\ "success" \in run.notices =>
               HasImagePart(run.response) /\ Len(run.dispatched) >= 1
C4_Witness ==
    /\ run.calls = 1 /\ run.response.parts = <<TextPart>>
    /\ run.notices = {"no_image"} /\ generated_image = None

C6_WrittenOnceNeverOverwritten ==
    /\ ~overwritten
    /\ run.mode = "memory" => run.writes = <<>>

\* C7 as stated: after an upload whose bytes do not decode, session state holds
\* no bitmap for that slot.
C7_FailedSlotLeftEmpty ==
    run.raised_at # 0 => uploaded_images[run.raised_at] = None

\* C8 as stated: the save_mode a generate action uses is the one selected by
\* the first execution of the session.
C8_ModeFixedAtStartup == run.dispatched # <<>> => run.mode = startup_mode

\* C9 as stated: every image part of a response reaches the persistence
\* dispatch, in response order, whether or not an earlier write failed, and
\* the session's generated image is then the last image part.
C9_EveryImagePartDispatched ==
    (run.calls = 1 /\ ~run.response.raises /\ AllDecodable(run.response)) =>
        /\ run.dispatched = ImageData(run.response.parts)
        /\ run.dispatched # <<>> => generated_image = OpenPart(Last(run.dispatched))

\* C10: generated_image, generated_image_bytes and current_filename are all
\* unset or all set; when set the bytes are the PNG encoding of that image and,
\* after an execution that decoded an image part, image and filename are those
\* of the last part decoded; whenever the results section is rendered the
\* download button has those bytes and the filename's basename.
C10_ResultStateConsistent ==
    /\ generated_image = None <=> generated_image_bytes = None
    /\ generated_image = None <=> current_filename = None
    /\ generated_image # None =>
        /\ generated_image_bytes = <<"PNG", generated_image>>
        /\ current_filename[2] = now
        /\ run.raised_at = 0 =>
               run.download = <<generated_image_bytes, <<-1, current_filename[2]>> >>
    /\ run.dispatched # <<>> =>
        /\ generated_image = <<"RGB", Last(run.dispatched)>>
        /\ current_filename =
               <<IF save_with_date_folder THEN now \div SecondsPerDay ELSE -1, now>>
    /\ generated_image = None => run.download = None
\* A generation that stored an image and then failed leaves the result whole.
C10_Witness ==
    /\ run.calls = 1 /\ "error" \in run.notices
    /\ generated_image # None /\ run.download # None

====
